---- MODULE Spec2Model ----
(***************************************************************************)
(* Model of src/python/direct_sap_server.py: the line-oriented JSON-RPC    *)
(* server DirectSAPMCPServer (run loop, handle_request, the handlers).     *)
(*                                                                         *)
(* Python values are tagged records [t |-> tag, v |-> payload] with tags   *)
(* None, bool, int, str, list, dict.  A dict keeps its insertion order: v  *)
(* is a sequence of <<key, value>> pairs with distinct keys.  JSON texts   *)
(* are tagged null, true, false, number, string, array, object; json.loads *)
(* and json.dumps convert between the two.  A line that json.loads rejects *)
(* is tagged garbage and a line that is empty after strip() is blank.      *)
(***************************************************************************)
EXTENDS Integers, Sequences, FiniteSets, TLC

VARIABLES initialized, pc, line, response, stdout, nread, initBefore, outBefore, handled

\* initialized  self.initialized
\* pc           where run is: reading, decoding, writing, or returned
\* line         the stripped line of the current iteration
\* response     the response handle_request returned, until it is written
\* stdout       the lines written to standard output, oldest first
\* nread        how many lines the for loop has taken from standard input
\* initBefore, outBefore, handled
\*              history of the current iteration: self.initialized and the
\*              number of output lines when its line was read, and whether
\*              handle_request has been called in it
vars == <<initialized, pc, line, response, stdout, nread, initBefore, outBefore, handled>>

(* ---------------------------- bounds ----------------------------------- *)

\* number of lines the input stream delivers before end-of-stream
MaxLines == 2

\* the same for the streams of SessionSpec, of ToolSpec and of LiveSpec
MaxSession == 3
MaxToolLines == 1
MaxLive == 3

\* number of direct calls of the handlers a client of the class makes
MaxCalls == 2

(* ------------------------- Python values ------------------------------- *)

PyNone == [t |-> "None", v |-> 0]
PyBool(b) == [t |-> "bool", v |-> b]
PyInt(n) == [t |-> "int", v |-> n]
PyStrVal(s) == [t |-> "str", v |-> s]
PyList(xs) == [t |-> "list", v |-> xs]
PyDict(pairs) == [t |-> "dict", v |-> pairs]

\* key in d
HasKey(d, k) == \E i \in 1..Len(d.v) : d.v[i][1] = k

\* d[k]
Item(d, k) == d.v[CHOOSE i \in 1..Len(d.v) : d.v[i][1] = k][2]

\* d.get(k, default)
Get(d, k, default) == IF HasKey(d, k) THEN Item(d, k) ELSE default

\* type(x).__name__
TypeName(x) == IF x.t = "None" THEN "NoneType" ELSE x.t

\* outcome of a call: a returned value or a raised exception with str(e)
Return(x) == [t |-> "return", v |-> x]
Raise(msg) == [t |-> "raise", v |-> msg]

\* str(e) of the AttributeError raised by x.get(...) when x is not a dict
NoGetAttr(x) == "'" \o TypeName(x) \o "' object has no attribute 'get'"

RECURSIVE PyRepr(_)
RECURSIVE ReprItems(_)
RECURSIVE ReprPairs(_)

\* ", ".join(repr(x) for x in xs)
ReprItems(xs) ==
  IF Len(xs) = 0 THEN ""
  ELSE IF Len(xs) = 1 THEN PyRepr(xs[1])
  ELSE PyRepr(xs[1]) \o ", " \o ReprItems(Tail(xs))

\* ", ".join(repr(k) + ": " + repr(v) for k, v in d.items())
ReprPairs(ps) ==
  IF Len(ps) = 0 THEN ""
  ELSE IF Len(ps) = 1 THEN "'" \o ps[1][1] \o "': " \o PyRepr(ps[1][2])
  ELSE "'" \o ps[1][1] \o "': " \o PyRepr(ps[1][2]) \o ", " \o ReprPairs(Tail(ps))

\* repr(x)
PyRepr(x) ==
  CASE x.t = "None" -> "None"
    [] x.t = "bool" -> IF x.v THEN "True" ELSE "False"
    [] x.t = "int" -> ToString(x.v)
    [] x.t = "str" -> "'" \o x.v \o "'"
    [] x.t = "list" -> "[" \o ReprItems(x.v) \o "]"
    [] x.t = "dict" -> "{" \o ReprPairs(x.v) \o "}"

\* str(x), which is what an f-string field {x} inserts
PyStr(x) == IF x.t = "str" THEN x.v ELSE PyRepr(x)

(* --------------------------- JSON codec -------------------------------- *)

JNull == [t |-> "null", v |-> 0]
JTrue == [t |-> "true", v |-> 0]
JFalse == [t |-> "false", v |-> 0]
JNum(n) == [t |-> "number", v |-> n]
JStr(s) == [t |-> "string", v |-> s]
JArr(xs) == [t |-> "array", v |-> xs]
JObj(pairs) == [t |-> "object", v |-> pairs]
Blank == [t |-> "blank", v |-> 0]
Garbage(s) == [t |-> "garbage", v |-> s]

RECURSIVE JsonLoads(_)
\* json.loads(line) for a line that is a JSON text
JsonLoads(j) ==
  CASE j.t = "null" -> PyNone
    [] j.t = "true" -> PyBool(TRUE)
    [] j.t = "false" -> PyBool(FALSE)
    [] j.t = "number" -> PyInt(j.v)
    [] j.t = "string" -> PyStrVal(j.v)
    [] j.t = "array" -> PyList([i \in 1..Len(j.v) |-> JsonLoads(j.v[i])])
    [] j.t = "object" ->
         PyDict([i \in 1..Len(j.v) |-> <<j.v[i][1], JsonLoads(j.v[i][2])>>])

RECURSIVE JsonDumps(_)
\* json.dumps(x)
JsonDumps(x) ==
  CASE x.t = "None" -> JNull
    [] x.t = "bool" -> IF x.v THEN JTrue ELSE JFalse
    [] x.t = "int" -> JNum(x.v)
    [] x.t = "str" -> JStr(x.v)
    [] x.t = "list" -> JArr([i \in 1..Len(x.v) |-> JsonDumps(x.v[i])])
    [] x.t = "dict" ->
         JObj([i \in 1..Len(x.v) |-> <<x.v[i][1], JsonDumps(x.v[i][2])>>])

\* json.loads raises JSONDecodeError: the text is not JSON, or is empty
IsDecodeError(l) == l.t \in {"garbage", "blank"}

(* ----------------------------- handlers -------------------------------- *)

\* the fixed result of handle_initialize
InitializeResponse ==
  PyDict(<<
    <<"protocolVersion", PyStrVal("2024-11-05")>>,
    <<"capabilities", PyDict(<<<<"tools", PyDict(<<>>)>>, <<"resources", PyDict(<<>>)>>>>)>>,
    <<"serverInfo", PyDict(<<<<"name", PyStrVal("sap-automation")>>,
                             <<"version", PyStrVal("1.0.0")>>>>)>>>>)

\* a handler that answers with the protocol version the client asked for
handle_initialize_Echo(params) ==
  IF params.t # "dict"
  THEN Raise("params must be a dictionary")
  ELSE Return(PyDict(<<
         <<"protocolVersion", Get(params, "protocolVersion", PyStrVal("2024-11-05"))>>,
         InitializeResponse.v[2], InitializeResponse.v[3]>>))

\* handle_initialize(params)
handle_initialize(params) ==
  IF params.t # "dict"
  THEN Raise("params must be a dictionary")
  ELSE Return(InitializeResponse)

(* --------------------------- tool catalog ------------------------------ *)

\* descriptor of sap_connect
Tool_sap_connect ==
  PyDict(<<
    <<"name", PyStrVal("sap_connect")>>,
    <<"description", PyStrVal("Connect to SAP system with credentials")>>,
    <<"inputSchema", PyDict(<<
      <<"type", PyStrVal("object")>>,
      <<"properties", PyDict(<<
        <<"system_id", PyDict(<<<<"type", PyStrVal("string")>>, <<"description", PyStrVal("SAP system ID")>>>>)>>,
        <<"client", PyDict(<<<<"type", PyStrVal("string")>>, <<"description", PyStrVal("SAP client number")>>>>)>>,
        <<"username", PyDict(<<<<"type", PyStrVal("string")>>, <<"description", PyStrVal("Username")>>>>)>>,
        <<"password", PyDict(<<<<"type", PyStrVal("string")>>, <<"description", PyStrVal("Password")>>>>)>>,
        <<"server", PyDict(<<<<"type", PyStrVal("string")>>, <<"description", PyStrVal("SAP server address")>>>>)>>,
        <<"instance", PyDict(<<<<"type", PyStrVal("string")>>, <<"description", PyStrVal("Instance number")>>, <<"default", PyStrVal("00")>>>>)>>,
        <<"language", PyDict(<<<<"type", PyStrVal("string")>>, <<"description", PyStrVal("Login language")>>, <<"default", PyStrVal("EN")>>>>)>>>>)>>,
      <<"required", PyList(<<PyStrVal("system_id"), PyStrVal("client"), PyStrVal("username"), PyStrVal("password"), PyStrVal("server")>>)>>>>)>>>>)

\* descriptor of sap_disconnect
Tool_sap_disconnect ==
  PyDict(<<
    <<"name", PyStrVal("sap_disconnect")>>,
    <<"description", PyStrVal("Disconnect from SAP system")>>,
    <<"inputSchema", PyDict(<<
      <<"type", PyStrVal("object")>>,
      <<"properties", PyDict(<<
        <<"session_id", PyDict(<<<<"type", PyStrVal("string")>>, <<"description", PyStrVal("Session ID to disconnect")>>>>)>>>>)>>,
      <<"required", PyList(<<>>)>>>>)>>>>)

\* descriptor of sap_get_sessions
Tool_sap_get_sessions ==
  PyDict(<<
    <<"name", PyStrVal("sap_get_sessions")>>,
    <<"description", PyStrVal("Get list of active SAP sessions")>>,
    <<"inputSchema", PyDict(<<
      <<"type", PyStrVal("object")>>,
      <<"properties", PyDict(<<
        >>)>>,
      <<"required", PyList(<<>>)>>>>)>>>>)

\* descriptor of sap_navigate
Tool_sap_navigate ==
  PyDict(<<
    <<"name", PyStrVal("sap_navigate")>>,
    <<"description", PyStrVal("Navigate to SAP transaction")>>,
    <<"inputSchema", PyDict(<<
      <<"type", PyStrVal("object")>>,
      <<"properties", PyDict(<<
        <<"transaction_code", PyDict(<<<<"type", PyStrVal("string")>>, <<"description", PyStrVal("Transaction code (e.g., VA01, MM01, SE80)")>>>>)>>,
        <<"session_id", PyDict(<<<<"type", PyStrVal("string")>>, <<"description", PyStrVal("Session ID")>>, <<"default", PyStrVal("default")>>>>)>>>>)>>,
      <<"required", PyList(<<PyStrVal("transaction_code")>>)>>>>)>>>>)

\* descriptor of sap_navigate_back
Tool_sap_navigate_back ==
  PyDict(<<
    <<"name", PyStrVal("sap_navigate_back")>>,
    <<"description", PyStrVal("Navigate back in SAP (F3 equivalent)")>>,
    <<"inputSchema", PyDict(<<
      <<"type", PyStrVal("object")>>,
      <<"properties", PyDict(<<
        <<"session_id", PyDict(<<<<"type", PyStrVal("string")>>, <<"description", PyStrVal("Session ID")>>, <<"default", PyStrVal("default")>>>>)>>>>)>>,
      <<"required", PyList(<<>>)>>>>)>>>>)

\* descriptor of sap_navigate_exit
Tool_sap_navigate_exit ==
  PyDict(<<
    <<"name", PyStrVal("sap_navigate_exit")>>,
    <<"description", PyStrVal("Exit current transaction (F15 equivalent)")>>,
    <<"inputSchema", PyDict(<<
      <<"type", PyStrVal("object")>>,
      <<"properties", PyDict(<<
        <<"session_id", PyDict(<<<<"type", PyStrVal("string")>>, <<"description", PyStrVal("Session ID")>>, <<"default", PyStrVal("default")>>>>)>>>>)>>,
      <<"required", PyList(<<>>)>>>>)>>>>)

\* descriptor of sap_input_field
Tool_sap_input_field ==
  PyDict(<<
    <<"name", PyStrVal("sap_input_field")>>,
    <<"description", PyStrVal("Input data into a specific SAP field")>>,
    <<"inputSchema", PyDict(<<
      <<"type", PyStrVal("object")>>,
      <<"properties", PyDict(<<
        <<"field_id", PyDict(<<<<"type", PyStrVal("string")>>, <<"description", PyStrVal("Field ID or name")>>>>)>>,
        <<"value", PyDict(<<<<"type", PyStrVal("string")>>, <<"description", PyStrVal("Value to input")>>>>)>>,
        <<"session_id", PyDict(<<<<"type", PyStrVal("string")>>, <<"description", PyStrVal("Session ID")>>, <<"default", PyStrVal("default")>>>>)>>>>)>>,
      <<"required", PyList(<<PyStrVal("field_id"), PyStrVal("value")>>)>>>>)>>>>)

\* descriptor of sap_get_field_value
Tool_sap_get_field_value ==
  PyDict(<<
    <<"name", PyStrVal("sap_get_field_value")>>,
    <<"description", PyStrVal("Get value from a specific SAP field")>>,
    <<"inputSchema", PyDict(<<
      <<"type", PyStrVal("object")>>,
      <<"properties", PyDict(<<
        <<"field_id", PyDict(<<<<"type", PyStrVal("string")>>, <<"description", PyStrVal("Field ID or name")>>>>)>>,
        <<"session_id", PyDict(<<<<"type", PyStrVal("string")>>, <<"description", PyStrVal("Session ID")>>, <<"default", PyStrVal("default")>>>>)>>>>)>>,
      <<"required", PyList(<<PyStrVal("field_id")>>)>>>>)>>>>)

\* descriptor of sap_clear_field
Tool_sap_clear_field ==
  PyDict(<<
    <<"name", PyStrVal("sap_clear_field")>>,
    <<"description", PyStrVal("Clear a specific SAP field")>>,
    <<"inputSchema", PyDict(<<
      <<"type", PyStrVal("object")>>,
      <<"properties", PyDict(<<
        <<"field_id", PyDict(<<<<"type", PyStrVal("string")>>, <<"description", PyStrVal("Field ID or name")>>>>)>>,
        <<"session_id", PyDict(<<<<"type", PyStrVal("string")>>, <<"description", PyStrVal("Session ID")>>, <<"default", PyStrVal("default")>>>>)>>>>)>>,
      <<"required", PyList(<<PyStrVal("field_id")>>)>>>>)>>>>)

\* descriptor of sap_press_button
Tool_sap_press_button ==
  PyDict(<<
    <<"name", PyStrVal("sap_press_button")>>,
    <<"description", PyStrVal("Press a button in SAP GUI")>>,
    <<"inputSchema", PyDict(<<
      <<"type", PyStrVal("object")>>,
      <<"properties", PyDict(<<
        <<"button_id", PyDict(<<<<"type", PyStrVal("string")>>, <<"description", PyStrVal("Button ID or name")>>>>)>>,
        <<"session_id", PyDict(<<<<"type", PyStrVal("string")>>, <<"description", PyStrVal("Session ID")>>, <<"default", PyStrVal("default")>>>>)>>>>)>>,
      <<"required", PyList(<<PyStrVal("button_id")>>)>>>>)>>>>)

\* descriptor of sap_select_menu
Tool_sap_select_menu ==
  PyDict(<<
    <<"name", PyStrVal("sap_select_menu")>>,
    <<"description", PyStrVal("Select menu item in SAP GUI")>>,
    <<"inputSchema", PyDict(<<
      <<"type", PyStrVal("object")>>,
      <<"properties", PyDict(<<
        <<"menu_path", PyDict(<<<<"type", PyStrVal("string")>>, <<"description", PyStrVal("Menu path (e.g., 'System->User Profile->Own Data')")>>>>)>>,
        <<"session_id", PyDict(<<<<"type", PyStrVal("string")>>, <<"description", PyStrVal("Session ID")>>, <<"default", PyStrVal("default")>>>>)>>>>)>>,
      <<"required", PyList(<<PyStrVal("menu_path")>>)>>>>)>>>>)

\* descriptor of sap_send_key
Tool_sap_send_key ==
  PyDict(<<
    <<"name", PyStrVal("sap_send_key")>>,
    <<"description", PyStrVal("Send function key or key combination")>>,
    <<"inputSchema", PyDict(<<
      <<"type", PyStrVal("object")>>,
      <<"properties", PyDict(<<
        <<"key", PyDict(<<<<"type", PyStrVal("string")>>, <<"description", PyStrVal("Key to send (F1-F24, Enter, Escape, etc.)")>>>>)>>,
        <<"session_id", PyDict(<<<<"type", PyStrVal("string")>>, <<"description", PyStrVal("Session ID")>>, <<"default", PyStrVal("default")>>>>)>>>>)>>,
      <<"required", PyList(<<PyStrVal("key")>>)>>>>)>>>>)

\* descriptor of sap_get_table_data
Tool_sap_get_table_data ==
  PyDict(<<
    <<"name", PyStrVal("sap_get_table_data")>>,
    <<"description", PyStrVal("Extract data from SAP table/grid")>>,
    <<"inputSchema", PyDict(<<
      <<"type", PyStrVal("object")>>,
      <<"properties", PyDict(<<
        <<"table_id", PyDict(<<<<"type", PyStrVal("string")>>, <<"description", PyStrVal("Table/grid ID")>>>>)>>,
        <<"row_start", PyDict(<<<<"type", PyStrVal("integer")>>, <<"description", PyStrVal("Starting row (0-based)")>>, <<"default", PyInt(0)>>>>)>>,
        <<"row_count", PyDict(<<<<"type", PyStrVal("integer")>>, <<"description", PyStrVal("Number of rows to extract")>>, <<"default", PyInt(10)>>>>)>>,
        <<"columns", PyDict(<<<<"type", PyStrVal("array")>>, <<"items", PyDict(<<<<"type", PyStrVal("string")>>>>)>>, <<"description", PyStrVal("Specific columns to extract (optional)")>>>>)>>,
        <<"session_id", PyDict(<<<<"type", PyStrVal("string")>>, <<"description", PyStrVal("Session ID")>>, <<"default", PyStrVal("default")>>>>)>>>>)>>,
      <<"required", PyList(<<PyStrVal("table_id")>>)>>>>)>>>>)

\* descriptor of sap_set_table_cell
Tool_sap_set_table_cell ==
  PyDict(<<
    <<"name", PyStrVal("sap_set_table_cell")>>,
    <<"description", PyStrVal("Set value in specific table cell")>>,
    <<"inputSchema", PyDict(<<
      <<"type", PyStrVal("object")>>,
      <<"properties", PyDict(<<
        <<"table_id", PyDict(<<<<"type", PyStrVal("string")>>, <<"description", PyStrVal("Table/grid ID")>>>>)>>,
        <<"row", PyDict(<<<<"type", PyStrVal("integer")>>, <<"description", PyStrVal("Row number (0-based)")>>>>)>>,
        <<"column", PyDict(<<<<"type", PyStrVal("string")>>, <<"description", PyStrVal("Column name or ID")>>>>)>>,
        <<"value", PyDict(<<<<"type", PyStrVal("string")>>, <<"description", PyStrVal("Value to set")>>>>)>>,
        <<"session_id", PyDict(<<<<"type", PyStrVal("string")>>, <<"description", PyStrVal("Session ID")>>, <<"default", PyStrVal("default")>>>>)>>>>)>>,
      <<"required", PyList(<<PyStrVal("table_id"), PyStrVal("row"), PyStrVal("column"), PyStrVal("value")>>)>>>>)>>>>)

\* descriptor of sap_select_table_row
Tool_sap_select_table_row ==
  PyDict(<<
    <<"name", PyStrVal("sap_select_table_row")>>,
    <<"description", PyStrVal("Select row(s) in SAP table")>>,
    <<"inputSchema", PyDict(<<
      <<"type", PyStrVal("object")>>,
      <<"properties", PyDict(<<
        <<"table_id", PyDict(<<<<"type", PyStrVal("string")>>, <<"description", PyStrVal("Table/grid ID")>>>>)>>,
        <<"row", PyDict(<<<<"type", PyStrVal("integer")>>, <<"description", PyStrVal("Row number (0-based)")>>>>)>>,
        <<"multi_select", PyDict(<<<<"type", PyStrVal("boolean")>>, <<"description", PyStrVal("Allow multiple selection")>>, <<"default", PyBool(FALSE)>>>>)>>,
        <<"session_id", PyDict(<<<<"type", PyStrVal("string")>>, <<"description", PyStrVal("Session ID")>>, <<"default", PyStrVal("default")>>>>)>>>>)>>,
      <<"required", PyList(<<PyStrVal("table_id"), PyStrVal("row")>>)>>>>)>>>>)

\* descriptor of sap_get_screen_info
Tool_sap_get_screen_info ==
  PyDict(<<
    <<"name", PyStrVal("sap_get_screen_info")>>,
    <<"description", PyStrVal("Get current screen information")>>,
    <<"inputSchema", PyDict(<<
      <<"type", PyStrVal("object")>>,
      <<"properties", PyDict(<<
        <<"session_id", PyDict(<<<<"type", PyStrVal("string")>>, <<"description", PyStrVal("Session ID")>>, <<"default", PyStrVal("default")>>>>)>>>>)>>,
      <<"required", PyList(<<>>)>>>>)>>>>)

\* descriptor of sap_get_status_message
Tool_sap_get_status_message ==
  PyDict(<<
    <<"name", PyStrVal("sap_get_status_message")>>,
    <<"description", PyStrVal("Get current status bar message")>>,
    <<"inputSchema", PyDict(<<
      <<"type", PyStrVal("object")>>,
      <<"properties", PyDict(<<
        <<"session_id", PyDict(<<<<"type", PyStrVal("string")>>, <<"description", PyStrVal("Session ID")>>, <<"default", PyStrVal("default")>>>>)>>>>)>>,
      <<"required", PyList(<<>>)>>>>)>>>>)

\* descriptor of sap_screenshot
Tool_sap_screenshot ==
  PyDict(<<
    <<"name", PyStrVal("sap_screenshot")>>,
    <<"description", PyStrVal("Take screenshot of SAP screen")>>,
    <<"inputSchema", PyDict(<<
      <<"type", PyStrVal("object")>>,
      <<"properties", PyDict(<<
        <<"filename", PyDict(<<<<"type", PyStrVal("string")>>, <<"description", PyStrVal("Output filename")>>, <<"default", PyStrVal("sap_screenshot.png")>>>>)>>,
        <<"session_id", PyDict(<<<<"type", PyStrVal("string")>>, <<"description", PyStrVal("Session ID")>>, <<"default", PyStrVal("default")>>>>)>>>>)>>,
      <<"required", PyList(<<>>)>>>>)>>>>)

\* descriptor of sap_execute_transaction
Tool_sap_execute_transaction ==
  PyDict(<<
    <<"name", PyStrVal("sap_execute_transaction")>>,
    <<"description", PyStrVal("Execute complete transaction with multiple steps")>>,
    <<"inputSchema", PyDict(<<
      <<"type", PyStrVal("object")>>,
      <<"properties", PyDict(<<
        <<"transaction_code", PyDict(<<<<"type", PyStrVal("string")>>, <<"description", PyStrVal("Transaction to execute")>>>>)>>,
        <<"steps", PyDict(<<<<"type", PyStrVal("array")>>, <<"items", PyDict(<<<<"type", PyStrVal("object")>>, <<"properties", PyDict(<<<<"action", PyDict(<<<<"type", PyStrVal("string")>>, <<"description", PyStrVal("Action type (input, button, key)")>>>>)>>, <<"target", PyDict(<<<<"type", PyStrVal("string")>>, <<"description", PyStrVal("Target field/button ID")>>>>)>>, <<"value", PyDict(<<<<"type", PyStrVal("string")>>, <<"description", PyStrVal("Value (for input actions)")>>>>)>>>>)>>>>)>>, <<"description", PyStrVal("List of steps to execute")>>>>)>>,
        <<"session_id", PyDict(<<<<"type", PyStrVal("string")>>, <<"description", PyStrVal("Session ID")>>, <<"default", PyStrVal("default")>>>>)>>>>)>>,
      <<"required", PyList(<<PyStrVal("transaction_code"), PyStrVal("steps")>>)>>>>)>>>>)

\* descriptor of sap_wait_for_screen
Tool_sap_wait_for_screen ==
  PyDict(<<
    <<"name", PyStrVal("sap_wait_for_screen")>>,
    <<"description", PyStrVal("Wait for specific screen to load")>>,
    <<"inputSchema", PyDict(<<
      <<"type", PyStrVal("object")>>,
      <<"properties", PyDict(<<
        <<"screen_id", PyDict(<<<<"type", PyStrVal("string")>>, <<"description", PyStrVal("Screen ID to wait for")>>>>)>>,
        <<"timeout", PyDict(<<<<"type", PyStrVal("integer")>>, <<"description", PyStrVal("Timeout in seconds")>>, <<"default", PyInt(30)>>>>)>>,
        <<"session_id", PyDict(<<<<"type", PyStrVal("string")>>, <<"description", PyStrVal("Session ID")>>, <<"default", PyStrVal("default")>>>>)>>>>)>>,
      <<"required", PyList(<<PyStrVal("screen_id")>>)>>>>)>>>>)

\* descriptor of sap_export_data
Tool_sap_export_data ==
  PyDict(<<
    <<"name", PyStrVal("sap_export_data")>>,
    <<"description", PyStrVal("Export SAP data to file")>>,
    <<"inputSchema", PyDict(<<
      <<"type", PyStrVal("object")>>,
      <<"properties", PyDict(<<
        <<"data_source", PyDict(<<<<"type", PyStrVal("string")>>, <<"description", PyStrVal("Data source (table, screen, etc.)")>>>>)>>,
        <<"format", PyDict(<<<<"type", PyStrVal("string")>>, <<"description", PyStrVal("Export format")>>, <<"enum", PyList(<<PyStrVal("csv"), PyStrVal("xlsx"), PyStrVal("txt"), PyStrVal("xml")>>)>>>>)>>,
        <<"filename", PyDict(<<<<"type", PyStrVal("string")>>, <<"description", PyStrVal("Output filename")>>>>)>>,
        <<"session_id", PyDict(<<<<"type", PyStrVal("string")>>, <<"description", PyStrVal("Session ID")>>, <<"default", PyStrVal("default")>>>>)>>>>)>>,
      <<"required", PyList(<<PyStrVal("data_source"), PyStrVal("format"), PyStrVal("filename")>>)>>>>)>>>>)

\* descriptor of sap_import_data
Tool_sap_import_data ==
  PyDict(<<
    <<"name", PyStrVal("sap_import_data")>>,
    <<"description", PyStrVal("Import data into SAP from file")>>,
    <<"inputSchema", PyDict(<<
      <<"type", PyStrVal("object")>>,
      <<"properties", PyDict(<<
        <<"filename", PyDict(<<<<"type", PyStrVal("string")>>, <<"description", PyStrVal("Input filename")>>>>)>>,
        <<"target", PyDict(<<<<"type", PyStrVal("string")>>, <<"description", PyStrVal("Target field or table")>>>>)>>,
        <<"mapping", PyDict(<<<<"type", PyStrVal("object")>>, <<"description", PyStrVal("Field mapping configuration")>>>>)>>,
        <<"session_id", PyDict(<<<<"type", PyStrVal("string")>>, <<"description", PyStrVal("Session ID")>>, <<"default", PyStrVal("default")>>>>)>>>>)>>,
      <<"required", PyList(<<PyStrVal("filename"), PyStrVal("target")>>)>>>>)>>>>)

\* a catalog that does not list sap_import_data
Tools_WithoutImport ==
  <<Tool_sap_connect,
    Tool_sap_disconnect,
    Tool_sap_get_sessions,
    Tool_sap_navigate,
    Tool_sap_navigate_back,
    Tool_sap_navigate_exit,
    Tool_sap_input_field,
    Tool_sap_get_field_value,
    Tool_sap_clear_field,
    Tool_sap_press_button,
    Tool_sap_select_menu,
    Tool_sap_send_key,
    Tool_sap_get_table_data,
    Tool_sap_set_table_cell,
    Tool_sap_select_table_row,
    Tool_sap_get_screen_info,
    Tool_sap_get_status_message,
    Tool_sap_screenshot,
    Tool_sap_execute_transaction,
    Tool_sap_wait_for_screen,
    Tool_sap_export_data>>

\* tools, in the order of the source
Tools ==
  <<Tool_sap_connect,
    Tool_sap_disconnect,
    Tool_sap_get_sessions,
    Tool_sap_navigate,
    Tool_sap_navigate_back,
    Tool_sap_navigate_exit,
    Tool_sap_input_field,
    Tool_sap_get_field_value,
    Tool_sap_clear_field,
    Tool_sap_press_button,
    Tool_sap_select_menu,
    Tool_sap_send_key,
    Tool_sap_get_table_data,
    Tool_sap_set_table_cell,
    Tool_sap_select_table_row,
    Tool_sap_get_screen_info,
    Tool_sap_get_status_message,
    Tool_sap_screenshot,
    Tool_sap_execute_transaction,
    Tool_sap_wait_for_screen,
    Tool_sap_export_data,
    Tool_sap_import_data>>

\* a catalog that is empty until the server is initialized
handle_tools_list_AfterInit ==
  PyDict(<<<<"tools", PyList(IF initialized THEN Tools ELSE <<>>)>>>>)

\* handle_tools_list()
handle_tools_list == PyDict(<<<<"tools", PyList(Tools)>>>>)

\* bool is a subclass of int
IsInt(x) == x.t \in {"int", "bool"}
IntOf(x) == IF x.t = "bool" THEN (IF x.v THEN 1 ELSE 0) ELSE x.v

\* str(e) of the TypeError raised by range(a, a + b), or "" when it succeeds
RangeError(a, b) ==
  IF IsInt(a) /\ IsInt(b) THEN ""
  ELSE IF a.t \in {"str", "list"} /\ b.t = a.t
       THEN "'" \o a.t \o "' object cannot be interpreted as an integer"
  ELSE IF a.t \in {"str", "list"}
       THEN "can only concatenate " \o a.t \o " (not \"" \o TypeName(b) \o "\") to " \o a.t
  ELSE "unsupported operand type(s) for +: '" \o TypeName(a) \o "' and '"
         \o TypeName(b) \o "'"

\* the elements a for loop over x visits (a dict yields its keys)
IterItems(x) ==
  CASE x.t = "list" -> x.v
    [] x.t = "dict" -> [i \in 1..Len(x.v) |-> PyStrVal(x.v[i][1])]

IsIterable(x) == x.t \in {"list", "dict"}
IsHashable(x) == x.t \notin {"list", "dict"}

\* str(e) of the TypeError raised by iterating x
NotIterable(x) == "'" \o TypeName(x) \o "' object is not iterable"

RECURSIVE RowPairs(_, _, _)
\* the items of {col: f"{col}_VALUE_{i}" for col in columns}, in insertion
\* order; a repeated column keeps its first position
RowPairs(cols, i, seen) ==
  IF Len(cols) = 0 THEN <<>>
  ELSE IF cols[1] \in seen THEN RowPairs(Tail(cols), i, seen)
  ELSE <<PyRepr(cols[1]) \o ": '" \o PyStr(cols[1]) \o "_VALUE_" \o ToString(i) \o "'">>
         \o RowPairs(Tail(cols), i, seen \cup {cols[1]})

RECURSIVE JoinStr(_, _)
\* sep.join(xs)
JoinStr(xs, sep) ==
  IF Len(xs) = 0 THEN ""
  ELSE IF Len(xs) = 1 THEN xs[1]
  ELSE xs[1] \o sep \o JoinStr(Tail(xs), sep)

\* repr(row) of one mock row
RowRepr(cols, i) == "{" \o JoinStr(RowPairs(cols, i, {}), ", ") \o "}"

\* the first element of xs that is not hashable
FirstUnhashable(xs) ==
  xs[CHOOSE j \in 1..Len(xs) :
       /\ ~IsHashable(xs[j])
       /\ \A h \in 1..(j - 1) : IsHashable(xs[h])]

\* the rows loop and result_text of the sap_get_table_data branch
TableRows(table_id, row_start, row_count, columns) ==
  IF RangeError(row_start, row_count) # "" THEN Raise(RangeError(row_start, row_count))
  ELSE IF IntOf(row_count) <= 0
  THEN Return("Extracted 0 rows from table '" \o PyStr(table_id) \o "': []")
  ELSE IF ~IsIterable(columns) THEN Raise(NotIterable(columns))
  ELSE IF \E k \in 1..Len(IterItems(columns)) : ~IsHashable(IterItems(columns)[k])
  THEN Raise("unhashable type: '" \o FirstUnhashable(IterItems(columns)).t \o "'")
  ELSE Return("Extracted " \o ToString(IntOf(row_count)) \o " rows from table '"
              \o PyStr(table_id) \o "': ["
              \o JoinStr([k \in 1..IntOf(row_count) |->
                            RowRepr(IterItems(columns), IntOf(row_start) + k - 1)], ", ")
              \o "]")

\* the sap_get_table_data branch of handle_tool_call
TableData(arguments) ==
  TableRows(Get(arguments, "table_id", PyStrVal("TABLE")),
            Get(arguments, "row_start", PyInt(0)),
            Get(arguments, "row_count", PyInt(10)),
            Get(arguments, "columns",
                PyList(<<PyStrVal("COL1"), PyStrVal("COL2"), PyStrVal("COL3")>>)))

\* one entry of executed_steps
StepText(i, step) ==
  "Step " \o ToString(i) \o ": " \o PyStr(Get(step, "action", PyStrVal("unknown")))
    \o " on " \o PyStr(Get(step, "target", PyStrVal("unknown")))
    \o " with '" \o PyStr(Get(step, "value", PyStrVal(""))) \o "'"

\* the first element of xs that is not a dict
FirstNonDict(xs) ==
  xs[CHOOSE j \in 1..Len(xs) :
       /\ xs[j].t # "dict"
       /\ \A h \in 1..(j - 1) : xs[h].t = "dict"]

\* the steps loop and result_text of the sap_execute_transaction branch
ExecuteSteps(tcode, steps) ==
  IF ~IsIterable(steps) THEN Raise(NotIterable(steps))
  ELSE IF \E k \in 1..Len(IterItems(steps)) : IterItems(steps)[k].t # "dict"
  THEN Raise(NoGetAttr(FirstNonDict(IterItems(steps))))
  ELSE Return("Executed transaction " \o PyStr(tcode) \o " with "
              \o ToString(Len(IterItems(steps))) \o " steps: "
              \o JoinStr([k \in 1..Len(IterItems(steps)) |->
                            StepText(k, IterItems(steps)[k])], "; "))

\* the sap_execute_transaction branch of handle_tool_call
ExecuteTransaction(arguments) ==
  ExecuteSteps(Get(arguments, "transaction_code", PyStrVal("VA01")),
               Get(arguments, "steps", PyList(<<>>)))

\* a field that ignores the argument and always inserts the default
Arg_DefaultOnly(arguments, key, default) == PyStr(default)

\* f-string field {arguments.get(key, default)}
Arg(arguments, key, default) == PyStr(Get(arguments, key, default))

\* session_id = arguments.get('session_id', 'default')
Session(arguments) == Arg(arguments, "session_id", PyStrVal("default"))

\* the tool names that read arguments
ArgTools ==
  {"sap_connect", "sap_disconnect", "sap_navigate", "sap_navigate_back",
   "sap_navigate_exit", "sap_input_field", "sap_get_field_value", "sap_clear_field",
   "sap_press_button", "sap_select_menu", "sap_send_key", "sap_get_table_data",
   "sap_set_table_cell", "sap_select_table_row", "sap_get_screen_info",
   "sap_get_status_message", "sap_screenshot", "sap_execute_transaction",
   "sap_wait_for_screen", "sap_export_data", "sap_import_data"}

\* the tool names handle_tool_call has a branch for
KnownTools == ArgTools \cup {"sap_get_sessions"}

\* an else branch that does not say which tool was asked for
UnknownToolText_NoName(tool_name) ==
  "Unknown SAP tool. Available tools: sap_connect, sap_navigate, sap_input_field, sap_get_table_data, etc."

\* the text of the final else branch
UnknownToolText(tool_name) ==
  "Unknown SAP tool: " \o PyStr(tool_name)
    \o ". Available tools: sap_connect, sap_navigate, sap_input_field, sap_get_table_data, etc."

\* screen_info of the sap_get_screen_info branch
ScreenInfo ==
  PyDict(<<<<"program", PyStrVal("SAPMV45A")>>, <<"screen", PyStrVal("4001")>>,
           <<"transaction", PyStrVal("VA01")>>, <<"title", PyStrVal("Create Sales Order")>>>>)

\* result_text of the branch for tool name n, which reads a dict arguments
BranchText(n, a) ==
  CASE n = "sap_connect" ->
         Return("Successfully connected to SAP system " \o Arg(a, "system_id", PyStrVal("DEV"))
                \o " client " \o Arg(a, "client", PyStrVal("100"))
                \o " on server " \o Arg(a, "server", PyStrVal("localhost"))
                \o " with language " \o Arg(a, "language", PyStrVal("EN")))
    [] n = "sap_disconnect" ->
         Return("Successfully disconnected from SAP session " \o Session(a))
    [] n = "sap_navigate" ->
         Return("Successfully navigated to transaction "
                \o Arg(a, "transaction_code", PyStrVal("UNKNOWN"))
                \o " in session " \o Session(a))
    [] n = "sap_navigate_back" ->
         Return("Navigated back (F3) in session " \o Session(a))
    [] n = "sap_navigate_exit" ->
         Return("Exited transaction (F15) in session " \o Session(a))
    [] n = "sap_input_field" ->
         Return("Successfully input '" \o Arg(a, "value", PyStrVal(""))
                \o "' into field '" \o Arg(a, "field_id", PyStrVal("FIELD"))
                \o "' in session " \o Session(a))
    [] n = "sap_get_field_value" ->
         Return("Field '" \o Arg(a, "field_id", PyStrVal("FIELD"))
                \o "' value: 'VALUE_FROM_" \o Arg(a, "field_id", PyStrVal("FIELD"))
                \o "' in session " \o Session(a))
    [] n = "sap_clear_field" ->
         Return("Successfully cleared field '" \o Arg(a, "field_id", PyStrVal("FIELD"))
                \o "' in session " \o Session(a))
    [] n = "sap_press_button" ->
         Return("Successfully pressed button '" \o Arg(a, "button_id", PyStrVal("BUTTON"))
                \o "' in session " \o Session(a))
    [] n = "sap_select_menu" ->
         Return("Successfully selected menu '" \o Arg(a, "menu_path", PyStrVal("Menu->Item"))
                \o "' in session " \o Session(a))
    [] n = "sap_send_key" ->
         Return("Successfully sent key '" \o Arg(a, "key", PyStrVal("Enter"))
                \o "' in session " \o Session(a))
    [] n = "sap_get_table_data" -> TableData(a)
    [] n = "sap_set_table_cell" ->
         Return("Set cell [" \o Arg(a, "row", PyInt(0)) \o "]["
                \o Arg(a, "column", PyStrVal("COL1")) \o "] = '"
                \o Arg(a, "value", PyStrVal("")) \o "' in table '"
                \o Arg(a, "table_id", PyStrVal("TABLE")) \o "' in session " \o Session(a))
    [] n = "sap_select_table_row" ->
         Return("Selected row " \o Arg(a, "row", PyInt(0)) \o " in table '"
                \o Arg(a, "table_id", PyStrVal("TABLE")) \o "' (multi: "
                \o Arg(a, "multi_select", PyBool(FALSE)) \o ") in session " \o Session(a))
    [] n = "sap_get_screen_info" ->
         Return("Screen info for session " \o Session(a) \o ": " \o PyStr(ScreenInfo))
    [] n = "sap_get_status_message" ->
         Return("Status message in session " \o Session(a)
                \o ": 'Document saved successfully'")
    [] n = "sap_screenshot" ->
         Return("Screenshot saved as '" \o Arg(a, "filename", PyStrVal("sap_screenshot.png"))
                \o "' from session " \o Session(a))
    [] n = "sap_execute_transaction" -> ExecuteTransaction(a)
    [] n = "sap_wait_for_screen" ->
         Return("Successfully waited for screen '" \o Arg(a, "screen_id", PyStrVal("SCREEN"))
                \o "' (timeout: " \o Arg(a, "timeout", PyInt(30)) \o "s) in session "
                \o Session(a))
    [] n = "sap_export_data" ->
         Return("Exported data from '" \o Arg(a, "data_source", PyStrVal("TABLE"))
                \o "' to '" \o Arg(a, "filename", PyStrVal("export.csv")) \o "' in "
                \o Arg(a, "format", PyStrVal("csv")) \o " format from session " \o Session(a))
    [] n = "sap_import_data" ->
         Return("Imported data from '" \o Arg(a, "filename", PyStrVal("import.csv"))
                \o "' to '" \o Arg(a, "target", PyStrVal("TABLE")) \o "' with mapping "
                \o Arg(a, "mapping", PyDict(<<>>)) \o " in session " \o Session(a))

\* result_text of handle_tool_call, or the exception a branch raises
ToolText(tool_name, arguments) ==
  IF tool_name.t = "str" /\ tool_name.v = "sap_get_sessions"
  THEN Return("Active SAP sessions: "
              \o JoinStr(<<"Session[0] - DEV/100", "Session[1] - QAS/100">>, ", "))
  ELSE IF tool_name.t = "str" /\ tool_name.v \in ArgTools
  THEN IF arguments.t # "dict"
       THEN Raise(NoGetAttr(arguments))
       ELSE BranchText(tool_name.v, arguments)
  ELSE Return(UnknownToolText(tool_name))

\* return {"content": [{"type": "text", "text": result_text}]}; an exception
\* of the branch goes on
ToolResult(text) ==
  IF text.t = "raise" THEN text
  ELSE Return(PyDict(<<<<"content",
         PyList(<<PyDict(<<<<"type", PyStrVal("text")>>,
                           <<"text", PyStrVal(text.v)>>>>)>>)>>>>))

\* a handle_tool_call that reads the arguments without a default
handle_tool_call_NoDefault(params) ==
  IF params.t # "dict" THEN Raise(NoGetAttr(params))
  ELSE ToolResult(ToolText(Get(params, "name", PyNone),
                           Get(params, "arguments", PyNone)))

\* handle_tool_call(params)
handle_tool_call(params) ==
  IF params.t # "dict" THEN Raise(NoGetAttr(params))
  ELSE ToolResult(ToolText(Get(params, "name", PyNone),
                           Get(params, "arguments", PyDict(<<>>))))

(* --------------------------- handle_request ---------------------------- *)

\* a result response that drops the request id
ResultResponse_NullId(request_id, result) ==
  PyDict(<<<<"jsonrpc", PyStrVal("2.0")>>, <<"id", PyNone>>, <<"result", result>>>>)

\* {"jsonrpc": "2.0", "id": request_id, "result": result}
ResultResponse(request_id, result) ==
  PyDict(<<<<"jsonrpc", PyStrVal("2.0")>>, <<"id", request_id>>, <<"result", result>>>>)

\* an else branch that reports the failure without the method name
MethodNotFound_NoName(request_id, method) ==
  PyDict(<<<<"jsonrpc", PyStrVal("2.0")>>, <<"id", request_id>>,
           <<"error", PyDict(<<<<"code", PyInt(-32601)>>,
                               <<"message", PyStrVal("Method not found")>>>>)>>>>)

\* the response of the final else branch
MethodNotFound(request_id, method) ==
  PyDict(<<<<"jsonrpc", PyStrVal("2.0")>>, <<"id", request_id>>,
           <<"error", PyDict(<<<<"code", PyInt(-32601)>>,
                               <<"message", PyStrVal("Method not found: " \o PyStr(method))>>>>)>>>>)

\* an except clause that also fills the result member
InvalidParams_WithResult(request_id, e) ==
  PyDict(<<<<"jsonrpc", PyStrVal("2.0")>>, <<"id", request_id>>,
           <<"result", PyNone>>,
           <<"error", PyDict(<<<<"code", PyInt(-32602)>>,
                               <<"message", PyStrVal("Invalid request parameters")>>,
                               <<"data", PyStrVal(e)>>>>)>>>>)

\* the response built by the except clause for the exception text e
InvalidParams(request_id, e) ==
  PyDict(<<<<"jsonrpc", PyStrVal("2.0")>>, <<"id", request_id>>,
           <<"error", PyDict(<<<<"code", PyInt(-32602)>>,
                               <<"message", PyStrVal("Invalid request parameters")>>,
                               <<"data", PyStrVal(e)>>>>)>>>>)

\* a notification branch that answers like the other branches
NotificationResult_Reply(request_id) == ResultResponse(request_id, PyDict(<<>>))

\* what the notifications/initialized branch returns
NotificationResult(request_id) == PyNone

\* an initialize branch that never sets the flag
FlagAfterInitialize_Never(outcome, flag) == flag

\* an initialize branch that sets the flag before it calls the handler
FlagAfterInitialize_Early(outcome, flag) == TRUE

\* an initialize branch that clears the flag when the handler fails
FlagAfterInitialize_Reset(outcome, flag) == outcome.t = "return"

\* the value of self.initialized after the initialize branch, whose call of
\* handle_initialize had the given outcome
FlagAfterInitialize(outcome, flag) == IF outcome.t = "return" THEN TRUE ELSE flag

\* return {"jsonrpc": "2.0", "id": request_id, "result": result} for the
\* result the handler returned; an exception of the handler goes on
Respond(request_id, outcome) ==
  IF outcome.t = "raise" THEN outcome
  ELSE Return(ResultResponse(request_id, outcome.v))

\* an initialize branch that refuses a second initialize
InitializeBranch_RejectSecond(request_id, outcome, flag) ==
  IF flag
  THEN [out |-> Raise("already initialized"), flag |-> flag]
  ELSE [out |-> Respond(request_id, outcome), flag |-> outcome.t = "return"]

\* the initialize branch, whose call of handle_initialize had the given
\* outcome
InitializeBranch(request_id, outcome, flag) ==
  [out |-> Respond(request_id, outcome), flag |-> FlagAfterInitialize(outcome, flag)]

\* the try block of handle_request: what it returns or raises (request.get
\* raises when the request is not a dict), and the value of self.initialized
\* it leaves
TryBlock(request, flag) ==
  LET method == Get(request, "method", PyNone)
      params == Get(request, "params", PyDict(<<>>))
      request_id == Get(request, "id", PyNone)
  IN  IF request.t # "dict"
      THEN [out |-> Raise(NoGetAttr(request)), flag |-> flag]
      ELSE IF method = PyStrVal("initialize")
      THEN InitializeBranch(request_id, handle_initialize(params), flag)
      ELSE IF method = PyStrVal("notifications/initialized")
      THEN [out |-> Return(NotificationResult(request_id)), flag |-> flag]
      ELSE IF method = PyStrVal("tools/list")
      THEN [out |-> Return(ResultResponse(request_id, handle_tools_list)), flag |-> flag]
      ELSE IF method = PyStrVal("tools/call")
      THEN [out |-> Respond(request_id, handle_tool_call(params)), flag |-> flag]
      ELSE [out |-> Return(MethodNotFound(request_id, method)), flag |-> flag]

\* an except clause that answers a request that is no dict with id null
ExceptClause_NullId(request, e) ==
  IF request.t # "dict" THEN Return(InvalidParams(PyNone, e))
  ELSE Return(InvalidParams(Get(request, "id", PyNone), e))

\* an except clause that lets the exception go on
ExceptClause_Reraise(request, e) == Raise(e)

\* the except clause of handle_request for the exception text e
ExceptClause(request, e) ==
  IF request.t # "dict" THEN Raise(NoGetAttr(request))
  ELSE Return(InvalidParams(Get(request, "id", PyNone), e))

\* a handle_request that marks the server initialized after any request
\* that succeeds
Catch_MarkInitialized(request, try) ==
  IF try.out.t = "raise"
  THEN [out |-> ExceptClause(request, try.out.v), flag |-> try.flag]
  ELSE [out |-> try.out, flag |-> TRUE]

\* a handle_request that serves nothing until the server is initialized
Catch_RequireInitialized(request, try) ==
  IF try.out.t = "raise"
  THEN [out |-> ExceptClause(request, try.out.v), flag |-> try.flag]
  ELSE IF ~try.flag
  THEN [out |-> ExceptClause(request, "Server not initialized"), flag |-> try.flag]
  ELSE try

\* except Exception as e: an exception of the try block is answered by the
\* except clause
Catch(request, try) ==
  IF try.out.t = "raise"
  THEN [out |-> ExceptClause(request, try.out.v), flag |-> try.flag]
  ELSE try

\* handle_request(request) with self.initialized = flag
handle_request(request, flag) == Catch(request, TryBlock(request, flag))

(* ------------------------- the input stream ---------------------------- *)

\* a member that a JSON object does not have
Absent == [t |-> "absent", v |-> 0]

\* the JSON object with the given members, absent ones left out
Obj(pairs) == JObj(SelectSeq(pairs, LAMBDA p : p[2] # Absent))

\* a request line
Request(method, params, id) ==
  Obj(<<<<"jsonrpc", JStr("2.0")>>, <<"method", method>>, <<"params", params>>,
        <<"id", id>>>>)

\* params of a tools/call request
Call(name, arguments) == Obj(<<<<"name", name>>, <<"arguments", arguments>>>>)

\* the id members the requests of the model carry
Ids == {Absent, JNull, JNum(7), JStr("a")}

InitializeParams ==
  {Absent, JNull, JArr(<<>>), JStr("x"), JNum(1), JObj(<<>>),
   JObj(<<<<"protocolVersion", JStr("1.0")>>,
          <<"clientInfo", JObj(<<<<"name", JStr("test-client")>>>>)>>>>)}

CallParams ==
  {Absent, JNull, JArr(<<JNum(1)>>),
   Call(JStr("sap_connect"), Absent),
   Call(JStr("sap_connect"), JObj(<<<<"system_id", JStr("PRD")>>>>)),
   Call(JStr("sap_connect"), JArr(<<>>)),
   Call(JStr("sap_get_sessions"), JArr(<<>>)),
   Call(JStr("no_such_tool"), Absent),
   Call(JNum(5), JStr("x")),
   Call(JStr("sap_get_table_data"), JObj(<<<<"row_start", JStr("x")>>>>)),
   Call(JStr("sap_get_table_data"),
        JObj(<<<<"row_count", JNum(1)>>, <<"columns", JArr(<<JStr("A")>>)>>>>)),
   Call(JStr("sap_execute_transaction"), JObj(<<<<"steps", JArr(<<JNum(1)>>)>>>>)),
   Call(JStr("sap_execute_transaction"),
        JObj(<<<<"steps", JArr(<<JObj(<<<<"action", JStr("press")>>>>)>>)>>>>))}

\* the method and params members of the request lines of the model
MethodParams ==
  ({JStr("initialize")} \X InitializeParams)
    \cup ({JStr("notifications/initialized")} \X {Absent, JArr(<<>>)})
    \cup ({JStr("tools/list")} \X {Absent, JNull})
    \cup ({JStr("tools/call")} \X CallParams)
    \cup ({JStr("foo"), Absent, JNum(3)} \X {Absent})
    \cup ({JStr("foo")} \X {JArr(<<>>)})

\* the texts a line can carry between its surrounding whitespace
LineTexts ==
  {Blank, Garbage("{bad"),
   JNull, JTrue, JNum(1), JStr("initialize"), JArr(<<>>),
   JArr(<<Request(JStr("tools/list"), Absent, JNum(7))>>)}
    \cup {Request(mp[1], mp[2], id) : mp \in MethodParams, id \in Ids}

\* the kinds of line of a session: requests of every method, succeeding and
\* failing, a request without id, and lines that are not requests
SessionTexts ==
  {Blank, Garbage("{bad"), JArr(<<>>),
   Request(JStr("initialize"), JObj(<<>>), JNum(7)),
   Request(JStr("initialize"), Absent, JStr("a")),
   Request(JStr("initialize"), JNull, JNum(7)),
   Request(JStr("notifications/initialized"), Absent, Absent),
   Request(JStr("tools/list"), Absent, JNum(7)),
   Request(JStr("tools/list"), Absent, Absent),
   Request(JStr("tools/call"),
           Call(JStr("sap_connect"), JObj(<<<<"system_id", JStr("PRD")>>>>)), JNum(7)),
   Request(JStr("tools/call"), Call(JStr("sap_connect"), JArr(<<>>)), JStr("a")),
   Request(JStr("tools/call"), Call(JStr("no_such_tool"), Absent), JNum(7)),
   Request(JStr("foo"), Absent, JNum(7))}

SessionLines == [ws : {FALSE}, text : SessionTexts] \cup [ws : {TRUE}, text : {Blank}]

\* the name members of the tools/call requests of ToolSpec
ToolNames ==
  {JStr(n) : n \in KnownTools} \cup {JStr("no_such_tool"), JStr(""), JNum(5), JNull, Absent}

\* the arguments members of the tools/call requests of ToolSpec
ToolArguments ==
  {Absent, JObj(<<>>), JArr(<<>>),
   JObj(<<<<"system_id", JStr("DEV")>>, <<"client", JStr("100")>>,
          <<"username", JStr("testuser")>>, <<"password", JStr("testpass")>>>>),
   JObj(<<<<"system_id", JStr("PRD")>>, <<"server", JStr("sap01")>>>>),
   JObj(<<<<"system_id", JNum(5)>>, <<"language", JStr("DE")>>>>),
   JObj(<<<<"session_id", JStr("S1")>>>>)}

ToolTexts ==
  {Garbage("{bad"), Request(JStr("tools/call"), Absent, JNum(7))}
    \cup {Request(JStr("tools/call"), Call(n, a), JNum(7)) :
             n \in ToolNames, a \in ToolArguments}

ToolLines == [ws : {FALSE}, text : ToolTexts]

\* the lines of a stream that ends: one of each way an iteration can go
\* (skipped, undecodable, not a request, answered, failed in the handler)
LiveTexts ==
  {Blank, Garbage("{bad"), JArr(<<>>),
   Request(JStr("initialize"), JObj(<<>>), JNum(7)),
   Request(JStr("tools/call"), Call(JStr("sap_connect"), JArr(<<>>)), JStr("a"))}

LiveLines == [ws : {FALSE}, text : LiveTexts]

\* the lines standard input can deliver; ws says whether the text is
\* surrounded by whitespace other than the newline
StdinLines == [ws : {FALSE}, text : LineTexts] \cup [ws : {TRUE}, text : {Blank, JNull}]

(* ------------------------------- run ----------------------------------- *)

\* line.strip(): the model keeps the text between the surrounding whitespace
Strip(l) == l.text

\* a loop that does not skip empty lines
IsEmpty_Never(text) == FALSE

\* if not line: the stripped line is the empty string
IsEmpty(text) == text.t = "blank"

\* truth value of x in "if x:" and "if not x:"
Truthy(x) ==
  CASE x.t = "None" -> FALSE
    [] x.t = "bool" -> x.v
    [] x.t = "int" -> x.v # 0
    [] x.t = "str" -> x.v # ""
    [] x.t \in {"list", "dict"} -> Len(x.v) > 0

\* a parse-error response with the code of an invalid request
ParseErrorResponse_InvalidRequest ==
  PyDict(<<<<"jsonrpc", PyStrVal("2.0")>>, <<"id", PyNone>>,
           <<"error", PyDict(<<<<"code", PyInt(-32600)>>,
                               <<"message", PyStrVal("Parse error")>>>>)>>>>)

\* the parse-error response of the JSONDecodeError clause
ParseErrorResponse ==
  PyDict(<<<<"jsonrpc", PyStrVal("2.0")>>, <<"id", PyNone>>,
           <<"error", PyDict(<<<<"code", PyInt(-32700)>>,
                               <<"message", PyStrVal("Parse error")>>>>)>>>>)

\* an output that writes every line twice
Emit_Twice(out, text, n) ==
  out \o <<[src |-> n, text |-> text], [src |-> n, text |-> text]>>

\* an output that puts the newest line first
Emit_Prepend(out, text, n) == <<[src |-> n, text |-> text]>> \o out

\* print(text, flush=True): one more line on standard output, tagged with the
\* number of the input line being processed
Emit(out, text, n) == Append(out, [src |-> n, text |-> text])

\* no line read yet / no response pending
NoLine == [t |-> "none", v |-> 0]

Init ==
  /\ initialized = FALSE
  /\ pc = "read"
  /\ line = NoLine
  /\ response = PyNone
  /\ stdout = <<>>
  /\ nread = 0
  /\ initBefore = FALSE
  /\ outBefore = 0
  /\ handled = FALSE

\* for line in sys.stdin: line = line.strip(); if not line: continue
\* for a stream that delivers at most max lines, each one of lines
ReadFrom(lines, max) ==
  /\ pc = "read"
  /\ nread < max
  /\ \E l \in lines :
       /\ line' = Strip(l)
       /\ pc' = IF IsEmpty(Strip(l)) THEN "read" ELSE "decode"
  /\ nread' = nread + 1
  /\ initBefore' = initialized
  /\ outBefore' = Len(stdout)
  /\ handled' = FALSE
  /\ UNCHANGED <<initialized, response, stdout>>

\* the loop takes the next line of a stream of any requests
ReadLine == ReadFrom(StdinLines, MaxLines)

\* the loop takes the next line of a session stream
ReadSessionLine == ReadFrom(SessionLines, MaxSession)

\* the loop takes the next line of a stream of tools/call requests
ReadToolLine == ReadFrom(ToolLines, MaxToolLines)

\* the loop takes the next line of a stream that ends
ReadLiveLine == ReadFrom(LiveLines, MaxLive)

\* a loop without its inner "except Exception": an exception that leaves
\* handle_request reaches the outer handler of run and ends the loop
Deliver_Abort(r) ==
  /\ initialized' = r.flag
  /\ IF r.out.t = "raise"
     THEN response' = PyNone /\ pc' = "done"
     ELSE IF Truthy(r.out.v)
     THEN response' = r.out.v /\ pc' = "write"
     ELSE response' = PyNone /\ pc' = "read"

\* response = self.handle_request(request); if response: ...
\* r is what handle_request returned or raised and the flag it left
Deliver(r) ==
  /\ initialized' = r.flag
  /\ IF r.out.t = "return" /\ Truthy(r.out.v)
     THEN response' = r.out.v /\ pc' = "write"
     ELSE response' = PyNone /\ pc' = "read"

\* request = json.loads(line); response = self.handle_request(request);
\* an exception that leaves handle_request is logged by "except Exception"
HandleLine ==
  /\ pc = "decode"
  /\ ~IsDecodeError(line)
  /\ Deliver(handle_request(JsonLoads(line), initialized))
  /\ handled' = TRUE
  /\ UNCHANGED <<line, stdout, nread, initBefore, outBefore>>

\* response_json = json.dumps(response); print(response_json, flush=True)
WriteResponse ==
  /\ pc = "write"
  /\ stdout' = Emit(stdout, JsonDumps(response), nread)
  /\ response' = PyNone
  /\ pc' = "read"
  /\ UNCHANGED <<initialized, line, nread, initBefore, outBefore, handled>>

\* except json.JSONDecodeError: print(json.dumps(error_response), flush=True)
ParseError ==
  /\ pc = "decode"
  /\ IsDecodeError(line)
  /\ stdout' = Emit(stdout, JsonDumps(ParseErrorResponse), nread)
  /\ pc' = "read"
  /\ UNCHANGED <<initialized, line, response, nread, initBefore, outBefore, handled>>

\* a loop that keeps waiting at end-of-stream
EndOfStream_Ignored ==
  /\ pc = "read"
  /\ UNCHANGED vars

\* sys.stdin is exhausted: the for loop ends and run returns
EndOfStream ==
  /\ pc = "read"
  /\ pc' = "done"
  /\ UNCHANGED <<initialized, line, response, stdout, nread, initBefore, outBefore, handled>>

Next == ReadLine \/ HandleLine \/ WriteResponse \/ ParseError \/ EndOfStream

Spec == Init /\ [][Next]_vars

\* run on a longer stream of fewer kinds of line
SessionNext ==
  ReadSessionLine \/ HandleLine \/ WriteResponse \/ ParseError \/ EndOfStream

SessionSpec == Init /\ [][SessionNext]_vars

\* run on an input stream that ends: a blocked read returns, with a line or
\* with end-of-stream, and every other step of the loop completes
LiveNext ==
  ReadLiveLine \/ HandleLine \/ WriteResponse \/ ParseError \/ EndOfStream

LiveSpec == Init /\ [][LiveNext]_vars /\ WF_vars(LiveNext)

\* run on a stream of tools/call requests
ToolNext ==
  ReadToolLine \/ HandleLine \/ WriteResponse \/ ParseError \/ EndOfStream

ToolSpec == Init /\ [][ToolNext]_vars

(* ------------------- direct calls of the handlers --------------------- *)

\* the params a client passes to handle_initialize: the dict of
\* test_direct.py, other dicts, and values that are no dict
DirectInitializeParams ==
  {JNull, JArr(<<>>), JObj(<<>>),
   JObj(<<<<"protocolVersion", JStr("2024-11-05")>>,
          <<"capabilities", JObj(<<<<"tools", JObj(<<>>)>>, <<"resources", JObj(<<>>)>>>>)>>,
          <<"clientInfo", JObj(<<<<"name", JStr("test-client")>>,
                                 <<"version", JStr("1.0.0")>>>>)>>>>),
   JObj(<<<<"protocolVersion", JStr("1.0")>>>>),
   JObj(<<<<"protocolVersion", JNum(3)>>, <<"capabilities", JArr(<<>>)>>>>),
   JObj(<<<<"clientInfo", JNull>>, <<"extra", JTrue>>>>)}

\* the params a client passes to handle_tool_call
DirectCallParams ==
  {JNull} \cup {Call(n, a) : n \in ToolNames, a \in {Absent, JObj(<<>>), JArr(<<>>)}}

\* server = DirectSAPMCPServer(): nothing has been called yet
DirectInit ==
  /\ initialized = FALSE
  /\ pc = "test"
  /\ line = NoLine
  /\ response = PyNone
  /\ stdout = <<>>
  /\ nread = 0
  /\ initBefore = FALSE
  /\ outBefore = 0
  /\ handled = FALSE

\* the method name was called with argument arg, and the call returned or
\* raised outcome: pc says which method was called last, line holds its
\* argument, response what it returned, handled whether it returned, nread
\* the number of calls. No handler assigns self.initialized or prints.
DirectCall(name, arg, outcome) ==
  /\ pc' = name
  /\ line' = arg
  /\ response' = IF outcome.t = "return" THEN outcome.v ELSE PyNone
  /\ handled' = (outcome.t = "return")
  /\ nread' = nread + 1
  /\ initBefore' = initialized
  /\ outBefore' = Len(stdout)
  /\ UNCHANGED <<initialized, stdout>>

\* server.handle_initialize(params)
CallInitialize ==
  /\ nread < MaxCalls
  /\ \E p \in DirectInitializeParams :
       DirectCall("handle_initialize", p, handle_initialize(JsonLoads(p)))

\* server.handle_tools_list()
CallToolsList ==
  /\ nread < MaxCalls
  /\ DirectCall("handle_tools_list", NoLine, Return(handle_tools_list))

\* server.handle_tool_call(params)
CallToolCall ==
  /\ nread < MaxCalls
  /\ \E p \in DirectCallParams :
       DirectCall("handle_tool_call", p, handle_tool_call(JsonLoads(p)))

DirectNext == CallInitialize \/ CallToolsList \/ CallToolCall

DirectSpec == DirectInit /\ [][DirectNext]_vars

(* ------------------------- vocabulary of the claims -------------------- *)

\* the current iteration of the loop is over: its line has been read and
\* everything run does for it has been done
LineDone == pc \in {"read", "done"} /\ nread > 0

\* the line of the current iteration decodes to a JSON object
IsRequest == line.t = "object"

\* member k of the JSON object j, or Absent
Member(j, k) == IF j.t = "object" /\ HasKey(j, k) THEN Item(j, k) ELSE Absent

Method == Member(line, "method")
Params == Member(line, "params")
ReqId == Member(line, "id")

\* the id a response copies from the request: null when the request has none
IdOf == IF ReqId = Absent THEN JNull ELSE ReqId

\* how many lines were written for the line of the current iteration
Written == Len(stdout) - outBefore

\* the newest output line
LastOut == stdout[Len(stdout)].text

\* the error member of the newest output line
LastError == Member(LastOut, "error")

SupportedMethods ==
  {JStr("initialize"), JStr("notifications/initialized"), JStr("tools/list"),
   JStr("tools/call")}

(* ------------------------------ claims --------------------------------- *)

\* C1 as stated: every line that decodes to a JSON object with a non-null id,
\* whatever its method and params, gets exactly one response line, whose id
\* is the request's id.
C1_OneResponsePerIdentifiedRequest ==
  (LineDone /\ IsRequest /\ ReqId \notin {Absent, JNull})
    => (Written = 1 /\ Member(LastOut, "id") = ReqId)

\* C1 amended: every line that decodes to a JSON object with a non-null id and
\* a method other than notifications/initialized, whatever its params, gets
\* exactly one response line, whose id is the request's id.
C1_OneResponseUnlessInitializedNotification ==
  (LineDone /\ IsRequest /\ ReqId \notin {Absent, JNull}
     /\ Method # JStr("notifications/initialized"))
    => (Written = 1 /\ Member(LastOut, "id") = ReqId)

\* a tools/call request with id "a" has been answered with id "a"
C1_Witness ==
  /\ LineDone /\ IsRequest /\ ReqId = JStr("a")
  /\ Method = JStr("tools/call")
  /\ Written = 1 /\ Member(LastOut, "id") = JStr("a")

\* C2: a request object whose id is absent or null, whatever its method, gets
\* no response line.
C2_NoResponseWithoutId ==
  (LineDone /\ IsRequest /\ ReqId \in {Absent, JNull}) => Written = 0

\* C3: a notifications/initialized request never produces an output line,
\* whatever its id and params, and initialize, tools/list and tools/call
\* requests always produce one.
C3_OnlyInitializedNotificationSilent ==
  (LineDone /\ IsRequest)
    => /\ Method = JStr("notifications/initialized") => Written = 0
       /\ Method \in {JStr("initialize"), JStr("tools/list"), JStr("tools/call")}
            => Written = 1

\* a notifications/initialized request that carries an id and list params
\* has been handled without output
C3_Witness ==
  /\ LineDone /\ IsRequest /\ handled
  /\ Method = JStr("notifications/initialized")
  /\ ReqId = JNum(7) /\ Params = JArr(<<>>)
  /\ Written = 0

\* the output lines answer input lines in the order of the input
Ordered == \A i, j \in 1..Len(stdout) : i < j => stdout[i].src < stdout[j].src

\* C4: responses are written in the order their requests were read, and when
\* the next input line is read the response to the line before it has been
\* written: no response is pending and every output line answers a line
\* read so far.
C4_ResponsesInRequestOrder ==
  [][/\ Ordered'
     /\ nread' # nread =>
          /\ response = PyNone
          /\ stdout' = stdout
          /\ \A i \in 1..Len(stdout) : stdout[i].src <= nread]_vars

\* two requests have been answered, the first before the second
C4_Witness ==
  /\ LineDone /\ Len(stdout) = 2
  /\ stdout[1].src = 1 /\ Member(stdout[1].text, "id") = JNum(7)
  /\ stdout[2].src = 2 /\ Member(stdout[2].text, "id") = JStr("a")

\* C5: a line that is not valid JSON produces exactly one output line, the
\* error response with code -32700, message "Parse error" and id null; no
\* handler is called for it and the initialized flag is unchanged.
C5_ParseErrorResponse ==
  (LineDone /\ line.t = "garbage")
    => /\ Written = 1
       /\ Member(LastOut, "jsonrpc") = JStr("2.0")
       /\ Member(LastOut, "id") = JNull
       /\ Member(LastOut, "result") = Absent
       /\ Member(LastError, "code") = JNum(-32700)
       /\ Member(LastError, "message") = JStr("Parse error")
       /\ ~handled
       /\ initialized = initBefore

\* a malformed line has been answered while the server was initialized
C5_Witness ==
  /\ LineDone /\ line.t = "garbage" /\ Written = 1
  /\ initBefore /\ initialized

\* C6: a request whose method is none of initialize,
\* notifications/initialized, tools/list and tools/call gets an error response
\* with code -32601, message "Method not found: {method}", no result member
\* and the id of the request.
C6_MethodNotFound ==
  (LineDone /\ IsRequest /\ Method \notin SupportedMethods)
    => /\ Written = 1
       /\ Member(LastError, "code") = JNum(-32601)
       /\ Method.t = "string"
            => Member(LastError, "message") = JStr("Method not found: " \o Method.v)
       /\ Member(LastOut, "result") = Absent
       /\ Member(LastOut, "id") = IdOf

\* the request foo with id 7 has been answered
C6_Witness ==
  /\ LineDone /\ IsRequest /\ Method = JStr("foo") /\ ReqId = JNum(7)
  /\ Written = 1 /\ LastError # Absent

\* C7: an initialize request whose params are a mapping or absent gets a
\* success response whose result has protocolVersion "2024-11-05", and
\* afterwards initialized is true.
C7_InitializeSucceeds ==
  (LineDone /\ IsRequest /\ Method = JStr("initialize")
     /\ Params.t \in {"absent", "object"})
    => /\ Written = 1
       /\ LastError = Absent
       /\ Member(Member(LastOut, "result"), "protocolVersion") = JStr("2024-11-05")
       /\ initialized

\* a first initialize request with mapping params has been answered
C7_Witness ==
  /\ LineDone /\ IsRequest /\ Method = JStr("initialize")
  /\ Params.t = "object" /\ Len(Params.v) > 0
  /\ ~initBefore /\ initialized /\ Written = 1

\* C8: an initialize request whose params are not a mapping (a list, string,
\* number or null) gets an error response with code -32602, the failure
\* message as data and the id of the request, and leaves initialized as it
\* was.
C8_InitializeRejectsNonMapping ==
  (LineDone /\ IsRequest /\ Method = JStr("initialize")
     /\ Params.t \notin {"absent", "object"})
    => /\ Written = 1
       /\ Member(LastOut, "result") = Absent
       /\ Member(LastError, "code") = JNum(-32602)
       /\ Member(LastError, "data") = JStr("params must be a dictionary")
       /\ Member(LastOut, "id") = IdOf
       /\ initialized = initBefore

\* an initialize request with null params and id "a" has been refused by a
\* server that was not initialized
C8_Witness ==
  /\ LineDone /\ IsRequest /\ Method = JStr("initialize")
  /\ Params = JNull /\ ReqId = JStr("a")
  /\ ~initBefore /\ ~initialized /\ Written = 1

\* what the handler of the request line l returns or raises
HandlerOutcome(l) ==
  LET request == JsonLoads(l)
      method == Get(request, "method", PyNone)
      params == Get(request, "params", PyDict(<<>>))
  IN  IF method = PyStrVal("initialize") THEN handle_initialize(params)
      ELSE IF method = PyStrVal("tools/call") THEN handle_tool_call(params)
      ELSE Return(PyNone)

\* C9: a failure raised inside a handler becomes exactly one error response
\* with code -32602, message "Invalid request parameters", the description of
\* the failure as data and the id of the request; it does not leave
\* handle_request.
C9_HandlerFailureBecomesErrorResponse ==
  (LineDone /\ IsRequest /\ HandlerOutcome(line).t = "raise")
    => /\ handle_request(JsonLoads(line), initBefore).out.t = "return"
       /\ Written = 1
       /\ Member(LastOut, "result") = Absent
       /\ Member(LastError, "code") = JNum(-32602)
       /\ Member(LastError, "message") = JStr("Invalid request parameters")
       /\ Member(LastError, "data") = JStr(HandlerOutcome(line).v)
       /\ Member(LastOut, "id") = IdOf

\* a tools/call whose steps argument holds a number has been answered with
\* the description of the failure
C9_Witness ==
  /\ LineDone /\ IsRequest /\ Method = JStr("tools/call") /\ ReqId = JNum(7)
  /\ Member(Params, "name") = JStr("sap_execute_transaction")
  /\ Written = 1
  /\ Member(LastError, "data") = JStr("'int' object has no attribute 'get'")

\* C10: once initialized is true it stays true, whatever is read next; the
\* flag only ever changes from false to true.
C10_InitializedNeverReset == [][initialized => initialized']_vars

\* an initialized server has handled a failing initialize request
C10_Witness ==
  /\ LineDone /\ IsRequest /\ handled
  /\ Method = JStr("initialize") /\ Params = JNull
  /\ initBefore /\ initialized

\* C11: every line on standard output is a response envelope with jsonrpc
\* "2.0", an id member and exactly one of result and error.
C11_EveryOutputIsOneEnvelope ==
  \A i \in 1..Len(stdout) :
    /\ stdout[i].text.t = "object"
    /\ Member(stdout[i].text, "jsonrpc") = JStr("2.0")
    /\ Member(stdout[i].text, "id") # Absent
    /\ (Member(stdout[i].text, "result") = Absent)
         # (Member(stdout[i].text, "error") = Absent)

\* a result envelope and an error envelope have been written
C11_Witness ==
  /\ Len(stdout) = 2
  /\ Member(stdout[1].text, "result") # Absent
  /\ Member(Member(stdout[2].text, "error"), "code") = JNum(-32602)

\* the line of the current iteration fails: it is malformed, it is JSON but
\* not an object, or its handler raises
FailingLine ==
  \/ line.t = "garbage"
  \/ line.t \in {"null", "true", "false", "number", "string", "array"}
  \/ IsRequest /\ HandlerOutcome(line).t = "raise"

\* C12: a failure while a line is processed never ends the loop: the loop
\* goes on to read the next line, in the state it had before the failing
\* line (same flag, no response left over), and only end-of-stream, met when
\* the loop is about to read, ends it.
C12_FailureNeverEndsLoop ==
  [][/\ pc' = "done" => pc = "read"
     /\ (FailingLine /\ pc \in {"decode", "write"})
          => /\ pc' \in {"read", "write"}
             /\ initialized' = initBefore
             /\ pc' = "read" => response' = PyNone]_vars

\* after a malformed first line and a second line whose handler raised, a
\* third line has been read and answered with a result
C12_Witness ==
  /\ LineDone /\ nread = 3 /\ Len(stdout) = 3
  /\ stdout[1].src = 1
  /\ Member(Member(stdout[1].text, "error"), "code") = JNum(-32700)
  /\ stdout[2].src = 2
  /\ Member(Member(stdout[2].text, "error"), "code") = JNum(-32602)
  /\ stdout[3].src = 3 /\ Member(stdout[3].text, "result") # Absent

\* the names of the catalog, as JSON strings
RegisteredNames == {JsonDumps(Item(Tools[i], "name")) : i \in 1..Len(Tools)}

\* how an f-string shows the name member of a tools/call request
NameText(name) ==
  CASE name.t = "string" -> name.v
    [] name.t = "number" -> ToString(name.v)
    [] name.t \in {"absent", "null"} -> "None"

\* the content member of the result of the newest output line
LastContent == Member(Member(LastOut, "result"), "content")

\* C13: tools/call with a name that is no registered tool (an absent name
\* included) returns a success envelope, with a result and no error, whose
\* single text content item names the unknown tool.
C13_UnknownToolIsSuccess ==
  (LineDone /\ IsRequest /\ Method = JStr("tools/call")
     /\ Params.t \in {"absent", "object"}
     /\ Member(Params, "name") \notin RegisteredNames)
    => /\ Written = 1
       /\ LastError = Absent
       /\ LastContent.t = "array" /\ Len(LastContent.v) = 1
       /\ Member(LastContent.v[1], "type") = JStr("text")
       /\ Member(LastContent.v[1], "text")
            = JStr("Unknown SAP tool: " \o NameText(Member(Params, "name"))
                   \o ". Available tools: sap_connect, sap_navigate, sap_input_field, sap_get_table_data, etc.")

\* tools/call for no_such_tool has been answered with a result
C13_Witness ==
  /\ LineDone /\ IsRequest /\ Method = JStr("tools/call")
  /\ Member(Params, "name") = JStr("no_such_tool")
  /\ Written = 1 /\ LastContent # Absent

\* the tools member of the result of output line i, or Absent
ToolsOf(i) == Member(Member(stdout[i].text, "result"), "tools")

\* C14: all tools/list responses of a run carry the same descriptors in the
\* same order, whatever was handled between them.
C14_ToolsListIsStable ==
  \A i, j \in 1..Len(stdout) :
    (ToolsOf(i) # Absent /\ ToolsOf(j) # Absent) => ToolsOf(i) = ToolsOf(j)

\* tools/list has been answered before and after an initialize
C14_Witness ==
  /\ Len(stdout) = 3
  /\ ToolsOf(1) # Absent /\ Len(ToolsOf(1).v) = 22
  /\ Member(Member(stdout[2].text, "result"), "protocolVersion") # Absent
  /\ ToolsOf(3) # Absent

\* the result of a first initialize, as JSON
InitializeResultJson ==
  JObj(<<<<"protocolVersion", JStr("2024-11-05")>>,
         <<"capabilities", JObj(<<<<"tools", JObj(<<>>)>>, <<"resources", JObj(<<>>)>>>>)>>,
         <<"serverInfo", JObj(<<<<"name", JStr("sap-automation")>>,
                                <<"version", JStr("1.0.0")>>>>)>>>>)

\* C15: an initialize request that arrives when the server is initialized is
\* not rejected: it gets the success result of a first initialize and the
\* server stays initialized.
C15_SecondInitializeAccepted ==
  (LineDone /\ IsRequest /\ Method = JStr("initialize")
     /\ Params.t \in {"absent", "object"} /\ initBefore)
    => /\ Written = 1
       /\ LastError = Absent
       /\ Member(LastOut, "result") = InitializeResultJson
       /\ initialized

\* a second initialize has been answered
C15_Witness ==
  /\ LineDone /\ IsRequest /\ Method = JStr("initialize")
  /\ Params.t \in {"absent", "object"} /\ initBefore /\ nread = 2
  /\ Len(stdout) = 2
  /\ Member(stdout[1].text, "result") = InitializeResultJson
  /\ Member(stdout[2].text, "result") = InitializeResultJson

\* C16: a line that is empty after strip() is skipped: no output line, no
\* handler call, flag unchanged.
C16_BlankLineSkipped ==
  (LineDone /\ line.t = "blank")
    => (Written = 0 /\ ~handled /\ initialized = initBefore)

\* a blank line has been skipped by an initialized server that had written
\* a response before
C16_Witness ==
  /\ LineDone /\ line.t = "blank" /\ nread = 2
  /\ initBefore /\ initialized /\ Len(stdout) = 1

\* C17: on a finite input stream run terminates, it ends only when the loop
\* is about to read and nothing is left to write, and it does nothing after
\* it has ended.
C17_RunEndsAtEndOfStream ==
  /\ <>(pc = "done")
  /\ [][/\ pc # "done"
        /\ pc' = "done" => (pc = "read" /\ response = PyNone /\ stdout' = stdout)]_vars

\* run has ended after three lines, each answered
C17_Witness == pc = "done" /\ nread = 3 /\ Len(stdout) = 3 /\ stdout[3].src = 3

\* the arguments member of the params of the current request
Arguments == Member(Params, "arguments")

\* how an f-string shows a JSON string or number
ValueText(j) == IF j.t = "string" THEN j.v ELSE ToString(j.v)

\* what follows the system id in the text of sap_connect, for the client,
\* server and language values of the requests of ToolSpec
ConnectTails ==
  {" client " \o c \o " on server " \o s \o " with language " \o l :
     c \in {"100"}, s \in {"localhost", "sap01"}, l \in {"EN", "DE"}}

\* C18: tools/call sap_connect with an arguments mapping that has system_id
\* returns a success result whose single text content item contains the
\* system_id value.
C18_ConnectTextHasSystemId ==
  (LineDone /\ IsRequest /\ Method = JStr("tools/call")
     /\ Member(Params, "name") = JStr("sap_connect")
     /\ Member(Arguments, "system_id") # Absent)
    => /\ Written = 1
       /\ LastError = Absent
       /\ LastContent.t = "array" /\ Len(LastContent.v) = 1
       /\ Member(LastContent.v[1], "type") = JStr("text")
       /\ \E tail \in ConnectTails :
            Member(LastContent.v[1], "text")
              = JStr("Successfully connected to SAP system "
                     \o ValueText(Member(Arguments, "system_id")) \o tail)

\* sap_connect with system_id "DEV" has been answered
C18_Witness ==
  /\ LineDone /\ IsRequest /\ Method = JStr("tools/call")
  /\ Member(Params, "name") = JStr("sap_connect")
  /\ Member(Arguments, "system_id") = JStr("DEV")
  /\ Written = 1 /\ LastContent # Absent

\* C19: only the handling of an initialize request changes the initialized
\* flag, and a request leaves nothing else behind: when the loop is back at
\* reading, no response is kept.
C19_OnlyInitializeChangesFlag ==
  [][/\ initialized' # initialized
          => (pc = "decode" /\ IsRequest /\ Method = JStr("initialize"))
     /\ pc' = "read" => response' = PyNone]_vars

\* a failing tools/call has been handled by a server that was not
\* initialized and still is not
C19_Witness ==
  /\ LineDone /\ IsRequest /\ handled /\ Method = JStr("tools/call")
  /\ HandlerOutcome(line).t = "raise"
  /\ ~initBefore /\ ~initialized /\ Written = 1

\* the lines run writes for what handle_request returned or raised
WrittenFor(r) ==
  IF r.out.t = "return" /\ Truthy(r.out.v) THEN <<JsonDumps(r.out.v)>> ELSE <<>>

\* the lines written for the line of the current iteration
WrittenLines == [i \in 1..Written |-> stdout[outBefore + i].text]

\* C20: the flag gates nothing: what is written for a request is what would
\* have been written had the flag had the other value when the request
\* arrived.
C20_FlagGatesNothing ==
  (LineDone /\ handled)
    => WrittenLines = WrittenFor(handle_request(JsonLoads(line), ~initBefore))

\* tools/list has been served as the first line, before any initialize
C20_Witness ==
  /\ LineDone /\ handled /\ nread = 1 /\ ~initBefore /\ ~initialized
  /\ IsRequest /\ Method = JStr("tools/list")
  /\ Written = 1 /\ ToolsOf(1) # Absent /\ Len(ToolsOf(1).v) = 22

\* C21: the result of initialize does not depend on the contents of its
\* params: for every mapping params handle_initialize returns the fixed
\* envelope with protocolVersion "2024-11-05", empty tools and resources
\* capabilities and the static serverInfo.
C21_InitializeResultIgnoresParams ==
  (pc = "handle_initialize" /\ line.t = "object")
    => (handled /\ JsonDumps(response) = InitializeResultJson)

\* handle_initialize has returned for params that ask for protocolVersion
\* "1.0"
C21_Witness ==
  /\ pc = "handle_initialize" /\ handled
  /\ Member(line, "protocolVersion") = JStr("1.0")

\* C22: the initialize handler itself flips the lifecycle state: after
\* handle_initialize has returned for a mapping params, initialized is true.
C22_HandlerSetsInitialized ==
  (pc = "handle_initialize" /\ line.t = "object" /\ handled) => initialized

\* the argument names the catalog gives for tool n
SchemaKeys(tool) ==
  {Item(Item(tool, "inputSchema"), "properties").v[i][1] :
     i \in 1..Len(Item(Item(tool, "inputSchema"), "properties").v)}

\* the arguments mapping has none of the argument names of the tool called n
NoToolKey(n, arguments) ==
  \A i \in 1..Len(Tools) :
    Item(Tools[i], "name") = PyStrVal(n)
      => \A k \in SchemaKeys(Tools[i]) : Member(arguments, k) = Absent

\* result_text of the branch of tool n when every argument it reads takes
\* its default
DefaultText(n) ==
  CASE n = "sap_connect" ->
         "Successfully connected to SAP system DEV client 100 on server localhost with lan"
           \o "guage EN"
    [] n = "sap_disconnect" ->
         "Successfully disconnected from SAP session default"
    [] n = "sap_get_sessions" ->
         "Active SAP sessions: Session[0] - DEV/100, Session[1] - QAS/100"
    [] n = "sap_navigate" ->
         "Successfully navigated to transaction UNKNOWN in session default"
    [] n = "sap_navigate_back" ->
         "Navigated back (F3) in session default"
    [] n = "sap_navigate_exit" ->
         "Exited transaction (F15) in session default"
    [] n = "sap_input_field" ->
         "Successfully input '' into field 'FIELD' in session default"
    [] n = "sap_get_field_value" ->
         "Field 'FIELD' value: 'VALUE_FROM_FIELD' in session default"
    [] n = "sap_clear_field" ->
         "Successfully cleared field 'FIELD' in session default"
    [] n = "sap_press_button" ->
         "Successfully pressed button 'BUTTON' in session default"
    [] n = "sap_select_menu" ->
         "Successfully selected menu 'Menu->Item' in session default"
    [] n = "sap_send_key" ->
         "Successfully sent key 'Enter' in session default"
    [] n = "sap_get_table_data" ->
         "Extracted 10 rows from table 'TABLE': [{'COL1': 'COL1_VALUE_0', 'COL2': 'COL2_VA"
           \o "LUE_0', 'COL3': 'COL3_VALUE_0'}, {'COL1': 'COL1_VALUE_1', 'COL2': 'COL2_VALUE_1'"
           \o ", 'COL3': 'COL3_VALUE_1'}, {'COL1': 'COL1_VALUE_2', 'COL2': 'COL2_VALUE_2', 'COL"
           \o "3': 'COL3_VALUE_2'}, {'COL1': 'COL1_VALUE_3', 'COL2': 'COL2_VALUE_3', 'COL3': 'C"
           \o "OL3_VALUE_3'}, {'COL1': 'COL1_VALUE_4', 'COL2': 'COL2_VALUE_4', 'COL3': 'COL3_VA"
           \o "LUE_4'}, {'COL1': 'COL1_VALUE_5', 'COL2': 'COL2_VALUE_5', 'COL3': 'COL3_VALUE_5'"
           \o "}, {'COL1': 'COL1_VALUE_6', 'COL2': 'COL2_VALUE_6', 'COL3': 'COL3_VALUE_6'}, {'C"
           \o "OL1': 'COL1_VALUE_7', 'COL2': 'COL2_VALUE_7', 'COL3': 'COL3_VALUE_7'}, {'COL1': "
           \o "'COL1_VALUE_8', 'COL2': 'COL2_VALUE_8', 'COL3': 'COL3_VALUE_8'}, {'COL1': 'COL1_"
           \o "VALUE_9', 'COL2': 'COL2_VALUE_9', 'COL3': 'COL3_VALUE_9'}]"
    [] n = "sap_set_table_cell" ->
         "Set cell [0][COL1] = '' in table 'TABLE' in session default"
    [] n = "sap_select_table_row" ->
         "Selected row 0 in table 'TABLE' (multi: False) in session default"
    [] n = "sap_get_screen_info" ->
         "Screen info for session default: {'program': 'SAPMV45A', 'screen': '4001', 'tran"
           \o "saction': 'VA01', 'title': 'Create Sales Order'}"
    [] n = "sap_get_status_message" ->
         "Status message in session default: 'Document saved successfully'"
    [] n = "sap_screenshot" ->
         "Screenshot saved as 'sap_screenshot.png' from session default"
    [] n = "sap_execute_transaction" ->
         "Executed transaction VA01 with 0 steps: "
    [] n = "sap_wait_for_screen" ->
         "Successfully waited for screen 'SCREEN' (timeout: 30s) in session default"
    [] n = "sap_export_data" ->
         "Exported data from 'TABLE' to 'export.csv' in csv format from session default"
    [] n = "sap_import_data" ->
         "Imported data from 'import.csv' to 'TABLE' with mapping {} in session default"

\* the text member of the single content item of the newest output line
LastText == Member(LastContent.v[1], "text")

\* C23: for every registered tool name, tools/call with arguments absent or
\* with an arguments mapping that lacks some or all of the tool's keys
\* returns a success result with exactly one content item of type text, and
\* when none of the tool's keys is given the text is the one built from the
\* defaults; a missing argument causes no error.
C23_MissingArgumentsDefaulted ==
  (LineDone /\ IsRequest /\ Method = JStr("tools/call")
     /\ Member(Params, "name") \in RegisteredNames
     /\ Arguments.t \in {"absent", "object"})
    => /\ Written = 1
       /\ LastError = Absent
       /\ LastContent.t = "array" /\ Len(LastContent.v) = 1
       /\ Member(LastContent.v[1], "type") = JStr("text")
       /\ LastText.t = "string"
       /\ NoToolKey(Member(Params, "name").v, Arguments)
            => LastText = JStr(DefaultText(Member(Params, "name").v))

\* sap_get_table_data without arguments has been answered with its ten
\* default rows
C23_Witness ==
  /\ LineDone /\ IsRequest /\ Method = JStr("tools/call")
  /\ Member(Params, "name") = JStr("sap_get_table_data")
  /\ Arguments = Absent
  /\ Written = 1 /\ LastContent # Absent
  /\ LastText = JStr(DefaultText("sap_get_table_data"))

\* the text of the else branch for the name member of the current request
UnknownText ==
  JStr("Unknown SAP tool: " \o NameText(Member(Params, "name"))
       \o ". Available tools: sap_connect, sap_navigate, sap_input_field, sap_get_table_data, etc.")

\* C24: the catalog and the dispatch agree: a tools/call that returns a
\* result returns the "Unknown SAP tool" text exactly when its name is not
\* one of the names tools/list returns.
C24_CatalogMatchesDispatch ==
  (LineDone /\ IsRequest /\ Method = JStr("tools/call")
     /\ Written = 1 /\ LastContent # Absent)
    => (Member(Params, "name") \in RegisteredNames <=> LastText # UnknownText)

\* the last name of the catalog has been called and has its own text
C24_Witness ==
  /\ LineDone /\ IsRequest /\ Method = JStr("tools/call")
  /\ Member(Params, "name") = JsonDumps(Item(Tools[Len(Tools)], "name"))
  /\ Written = 1 /\ LastContent # Absent
  /\ LastText = JStr(DefaultText("sap_import_data"))

\* C25: an input line that is valid JSON but no object (an array, number,
\* string, boolean or null) produces no output line, neither a -32700 nor a
\* -32602 error: handle_request is called and fails, nothing is left to
\* write, the loop is back at reading and initialized is unchanged.
C25_NonObjectLineIsSilent ==
  (nread > 0 /\ line.t \in {"null", "true", "false", "number", "string", "array"})
    => /\ pc \in {"decode", "read", "done"}
       /\ Written = 0
       /\ response = PyNone
       /\ initialized = initBefore
       /\ pc # "decode" => handled

\* a number was the second line, read by an initialized server that had
\* answered the first line: it was handled and nothing was written
C25_Witness ==
  /\ LineDone /\ nread = 2 /\ line.t = "number" /\ handled
  /\ initBefore /\ initialized /\ Len(stdout) = 1 /\ Written = 0

\* C26: each non-blank input line causes at most one output line and no
\* output line is written without an input line: the output lines belong to
\* different lines read so far, and a line is written only in the iteration
\* of a non-blank line that has not written yet, so that the output lines
\* are never more than the non-blank lines read.
C26_AtMostOneOutputPerLine ==
  /\ [](/\ Len(stdout) <= nread
        /\ \A i \in 1..Len(stdout) : stdout[i].src \in 1..nread
        /\ \A i, j \in 1..Len(stdout) : i # j => stdout[i].src # stdout[j].src)
  /\ [][Len(stdout') # Len(stdout)
          => /\ Len(stdout') = Len(stdout) + 1
             /\ Written = 0
             /\ line.t # "blank"
             /\ nread' = nread]_vars

\* two lines have been answered and a third, blank line has been skipped
C26_Witness ==
  /\ LineDone /\ nread = 3 /\ line.t = "blank"
  /\ Len(stdout) = 2 /\ stdout[1].src = 1 /\ stdout[2].src = 2

====
